---- MODULE Spec2Model ----
(***************************************************************************)
(* Model of the bulk document builder (es/make_bulk.go: MakeBulk and       *)
(* BulkMaker), of the operation decoder (es/operation.go: NewOperation)    *)
(* and of the export command (commands/export.go: Execute and index) of    *)
(* stellar-core-export.                                                    *)
(*                                                                         *)
(* Go slices are 0-based; the sequences below are 1-based, so the element  *)
(* the code reads as xs[i] is xs[i + 1] here.  Loop counters keep the      *)
(* code's 0-based values.                                                  *)
(***************************************************************************)
EXTENDS Integers, Sequences, FiniteSets, TLC

VARIABLES
    ledger,     \* the raw record set of one ledger handed to the builder
    entry,      \* builder entry point that ran: "none", "MakeBulk", "BulkMaker"
    buffer,     \* the bytes.Buffer the builder appends to, as a sequence of documents
    bstate,     \* "ready", "done" (the builder returned), "panic" (a run-time panic)
    second,     \* a second run of the builder over the same ledger: see Rebuild
    cfg,        \* ExportCommand.Config
    pc,         \* where the export command is: see ExportStates
    firstLedger,
    lastLedger,
    streamed,   \* the ledger sequences stellar.StreamLedgers has yielded so far
    exportBuffer, \* `var b bytes.Buffer` of Execute, as a sequence of documents
    outcomes,   \* the result of every ES.BulkInsert call made so far, in order
    submitted,  \* the buffer handed to each of those calls
    retry,      \* the `retry` argument of the running call of index
    sleeps,     \* how many times index has slept
    delay,      \* the seconds of its latest sleep (0: it has not slept)
    fatal       \* the message of log.Fatal once the process has been terminated, else ""

bvars == <<ledger, entry, buffer, bstate, second>>
evars == <<cfg, pc, firstLedger, lastLedger, streamed, exportBuffer, outcomes, submitted,
           retry, sleeps, delay, fatal>>
vars == <<ledger, entry, buffer, bstate, second, cfg, pc, firstLedger, lastLedger, streamed,
          exportBuffer, outcomes, submitted, retry, sleeps, delay, fatal>>

(***************************************************************************)
(* Bounds of the input space.                                              *)
(***************************************************************************)
MaxTx == 2
MaxOps == 2
MaxFees == 2
MaxCount == 2       \* Config.Count ranges over 0..MaxCount
MaxRetryCount == 2  \* Config.RetryCount ranges over 0..MaxRetryCount
MaxStream == 3      \* records the source stream yields in one run

\* uint8: the width of PagingToken.TransactionOrder / OperationOrder and of byte(o)
Byte == 256

Uint8(x) == x % Byte

\* Counts around the 8-bit boundary, for the ledgers that exercise uint8 conversion.
WideCounts == {Byte - 1, Byte, Byte + 1}

Max2(a, b) == IF a >= b THEN a ELSE b

(***************************************************************************)
(* Raw input rows (db.LedgerHeaderRow, db.TxHistoryRow, db.TxFeeHistoryRow)*)
(***************************************************************************)
\* An entry change: kind of change and type of the ledger entry it touches.
Change(type, entryType) == [type |-> type, entry |-> entryType]

\* Representative change sets; which one a meta or fee row carries is fixed by
\* its position, so that sets with one, several and no balance-bearing change occur.
ChangeSets ==
    << <<Change("updated", "account")>>,
       <<Change("created", "offer"), Change("updated", "trustline"), Change("updated", "account")>>,
       <<Change("removed", "trustline")>>,
       <<Change("created", "trustline")>>,
       <<Change("removed", "offer"), Change("updated", "account")>> >>

ChangesAt(i) == ChangeSets[(i % Len(ChangeSets)) + 1]

\* A pointer field of an XDR struct (*T): nil, or a pointer to a value.
Nil == [present |-> FALSE]
Some(v) == [present |-> TRUE, value |-> v]

\* xdr.Asset
NativeAsset == [type |-> "native", code |-> "", issuer |-> ""]
CreditAsset(code, issuer) == [type |-> "credit_alphanum4", code |-> code, issuer |-> issuer]

\* xdr.Operation: the optional source account, the type of the body and the body's arm.
Op(sourceAccount, type, body) == [sourceAccount |-> sourceAccount, type |-> type, body |-> body]

\* The six kinds NewOperation decodes, and the kinds its switch has no case for.
DecodedKinds ==
    {"CreateAccount", "Payment", "PathPayment", "ManageOffer", "CreatePassiveOffer", "SetOptions"}
OtherKinds ==
    {"ChangeTrust", "AllowTrust", "AccountMerge", "Inflation", "ManageData", "BumpSequence"}

PaymentBody == [Amount |-> 50, Destination |-> "GDEST", Asset |-> CreditAsset("USD", "GISSUER")]
OtherBody == [arm |-> "undecoded"]

OpKinds == <<"Payment", "AllowTrust">>

OpKindAt(o) == OpKinds[(o % Len(OpKinds)) + 1]

\* The operation at 0-based position o of a regular transaction: a payment or an
\* allow-trust, with and without a source account of its own.
PlainOp(o) ==
    Op(IF o % 3 = 0 THEN Nil ELSE Some("GOPSOURCE"), OpKindAt(o),
       IF OpKindAt(o) = "Payment" THEN PaymentBody ELSE OtherBody)

\* xdr.OperationResult: the per-operation result code (0 = success).
ResultAt(t, o) == [code |-> IF (t + o) % 2 = 0 THEN 0 ELSE 0 - 1]

\* Results pointer of a transaction result: nil, or a slice of nRes results.
NilResults == [present |-> FALSE, list |-> <<>>]
ResultsOf(t, nRes) == [present |-> TRUE, list |-> [o \in 1..nRes |-> ResultAt(t, o - 1)]]

\* xdr.TransactionMeta: union on V; V = 0 carries Operations, V = 1 carries V1.Operations,
\* any other arm carries neither.
MetaOf(v, t, nMetas) ==
    [v |-> v,
     operations |-> IF v \in {0, 1} THEN [o \in 1..nMetas |-> [changes |-> ChangesAt(t + o - 1)]] ELSE <<>>]

\* One db.TxHistoryRow at 0-based position t of its ledger: nOps operations, one
\* OperationMeta per operation.
TxRowOf(t, ops, results, v) ==
    [index |-> t, ops |-> ops, results |-> results, meta |-> MetaOf(v, t, Len(ops))]

TxRow(t, nOps, results, v) ==
    TxRowOf(t, [o \in 1..nOps |-> PlainOp(o - 1)], results, v)

FeeRow(f) == [changes |-> ChangesAt(f)]

LedgerRowAt(seq, txs, nFees) ==
    [seq |-> seq, closeTime |-> 10 * seq, txs |-> txs, fees |-> [f \in 1..nFees |-> FeeRow(f - 1)]]

LedgerRow(txs, nFees) == LedgerRowAt(100, txs, nFees)

\* Per-transaction shape of a regular ledger: number of operations, and whether the
\* result carries per-operation results (of the same length as the operations).
RegularShapes == [nOps : 0..MaxOps, res : BOOLEAN]

\* At most one transaction of a ledger is anomalous: its result slice is one shorter or
\* one longer than its operations, or its meta has no retrievable operations.
Anomalies(n) ==
    {[at |-> 0, what |-> "none"]} \cup [at : 1..n, what : {"short", "long", "noMeta"}]

RowFor(t, shape, metaV, anomaly) ==
    LET mine == anomaly.at = t + 1
        results == IF mine /\ anomaly.what = "short" THEN ResultsOf(t, Max2(shape.nOps - 1, 0))
                   ELSE IF mine /\ anomaly.what = "long" THEN ResultsOf(t, shape.nOps + 1)
                   ELSE IF shape.res THEN ResultsOf(t, shape.nOps)
                   ELSE NilResults
        v == IF mine /\ anomaly.what = "noMeta" THEN 2 ELSE metaV
    IN  TxRow(t, shape.nOps, results, v)

\* A ledger of n transactions, given its shapes, meta version, anomaly and fee rows.
SmallLedger(n, shapes, metaV, anomaly, nFees) ==
    LedgerRow([i \in 1..n |-> RowFor(i - 1, shapes[i], metaV, anomaly)], nFees)

\* Ledgers that cross the 8-bit boundary: many operations in one transaction, many
\* transactions, many fee rows.
WideLedgers ==
    { LedgerRow(<<TxRow(0, w, NilResults, 1)>>, 1) : w \in WideCounts }
    \cup { LedgerRow([i \in 1..w |-> TxRow(i - 1, 1, NilResults, 1)], 0) : w \in WideCounts }
    \cup { LedgerRow(<<>>, w) : w \in WideCounts }

\* Operations put through every path of NewOperation.  A set-options body has
\* each of its eight pointer fields nil or set; an offer has a price whose denominator
\* is zero or not.
SetOptionsBodies ==
    [InflationDest : {Nil, Some("GINFLATION")},
     HomeDomain : {Nil, Some("example.org")},
     LowThreshold : {Nil, Some(1)},
     MedThreshold : {Nil, Some(2)},
     HighThreshold : {Nil, Some(3)},
     MasterWeight : {Nil, Some(4)},
     SetFlags : {Nil, Some(0), Some(5)},
     ClearFlags : {Nil, Some(2)}]

Prices == [N : {1, 3}, D : {0, 2}]

ManageOfferBodies ==
    [Amount : {70}, Buying : {NativeAsset}, Selling : {CreditAsset("EUR", "GISSUER")},
     OfferId : {9}, Price : Prices]

CreatePassiveOfferBodies ==
    [Amount : {80}, Buying : {CreditAsset("EUR", "GISSUER")}, Selling : {NativeAsset},
     Price : Prices]

CreateAccountBody == [StartingBalance |-> 20, Destination |-> "GNEW"]

PathPaymentBody ==
    [Destination |-> "GDEST", DestAmount |-> 30, DestAsset |-> NativeAsset, SendMax |-> 40,
     SendAsset |-> CreditAsset("USD", "GISSUER"), Path |-> <<CreditAsset("EUR", "GISSUER")>>]

DecodeOps ==
    { Op(Nil, "SetOptions", b) : b \in SetOptionsBodies }
    \cup { Op(Nil, "ManageOffer", b) : b \in ManageOfferBodies }
    \cup { Op(Nil, "CreatePassiveOffer", b) : b \in CreatePassiveOfferBodies }
    \cup { Op(Nil, "CreateAccount", CreateAccountBody), Op(Nil, "PathPayment", PathPaymentBody) }
    \cup { Op(src, k, OtherBody) : src \in {Nil, Some("GOPSOURCE")}, k \in OtherKinds }

\* A ledger whose first operation is op: it is followed by one more operation in the
\* same transaction, by a second transaction and by a fee row.
DecodeLedger(op) ==
    LedgerRow(<<TxRowOf(0, <<op, PlainOp(1)>>, NilResults, 1), TxRow(1, 1, NilResults, 1)>>, 1)

(***************************************************************************)
(* Documents                                                               *)
(***************************************************************************)
\* Every document also carries where it came from (t: position of the transaction or
\* fee row, o: position of the operation or operation meta, n: position among the
\* balances of one change set); the Go documents do not, the properties below need it.
NewLedgerHeader(r) ==
    [kind |-> "LedgerHeader", Seq |-> r.seq, CloseTime |-> r.closeTime, t |-> 0, o |-> 0, n |-> 0]

NewTransaction(seq, row, closeTime) ==
    [kind |-> "Transaction", ID |-> <<"tx", seq, row.index>>, Index |-> Uint8(row.index),
     Seq |-> seq, Order |-> <<seq, Uint8(row.index)>>, CloseTime |-> closeTime,
     SourceAccountID |-> "GTXSOURCE",
     t |-> row.index, o |-> 0, n |-> 0]

(***************************************************************************)
(* NewOperation (es/operation.go).  A decoding step yields the document so *)
(* far and whether it ended in a run-time panic (a nil pointer             *)
(* dereference, a division by zero); nothing in the package recovers one.  *)
(***************************************************************************)
Decoded(op) == [panicked |-> FALSE, op |-> op]
Aborted(op) == [panicked |-> TRUE, op |-> op]

\* (*xdr.AccountId).Address(): the strkey of the account; the xdr package returns ""
\* for a nil receiver.
Address(aid) == IF aid.present THEN aid.value ELSE ""

\* asset(a): the native asset, or code, issuer and the key made of both.
asset(a) ==
    IF a.type = "native" THEN [Code |-> "native", Issuer |-> "", Key |-> <<"native">>]
    ELSE [Code |-> a.code, Issuer |-> a.issuer, Key |-> <<a.code, a.issuer>>]

\* f & bit != 0, for bit a power of two
HasBit(f, bit) == (f \div bit) % 2 = 1

\* flags(f): xdr.AccountFlags has AuthRequired = 1, AuthRevocable = 2, AuthImmutable = 4
flags(f) ==
    [AuthRequired |-> HasBit(f, 1), AuthRevocable |-> HasBit(f, 2),
     AuthImmutable |-> HasBit(f, 4)]

RECURSIVE Gcd(_, _)
Gcd(a, b) == IF b = 0 THEN a ELSE Gcd(b, a % b)

\* big.NewRat(n, d) for d # 0 (it panics for d = 0): the ratio in lowest terms, which
\* stands for the float64 the code takes from it.
NewRat(n, d) == <<n \div Gcd(n, d), d \div Gcd(n, d)>>

\* The fields of a zero Thresholds struct: four nil pointers.
EmptyThresholds == [Low |-> Nil, Medium |-> Nil, High |-> Nil, Master |-> Nil]

\* The kind-specific fields of an Operation, as the composite literal of NewOperation
\* leaves them: zero values and nil pointers.
KindSpecificDefaults ==
    [SourceAsset |-> Nil, SourceAmount |-> 0, DestinationAccountID |-> "",
     DestinationAsset |-> Nil, DestinationAmount |-> 0, OfferPrice |-> <<0, 1>>,
     OfferPriceND |-> [N |-> 0, D |-> 0], OfferID |-> 0, TrustLimit |-> 0,
     Authorize |-> FALSE, BumpTo |-> 0, Path |-> <<>>, Thresholds |-> Nil,
     HomeDomain |-> "", InflationDest |-> "", SetFlags |-> Nil, ClearFlags |-> Nil]

newCreateAccount(o, op) ==
    Decoded([op EXCEPT !.SourceAmount = o.StartingBalance,
                       !.DestinationAccountID = o.Destination])

newPayment(o, op) ==
    Decoded([op EXCEPT !.SourceAmount = o.Amount,
                       !.DestinationAccountID = o.Destination,
                       !.SourceAsset = Some(asset(o.Asset))])

newPathPayment(o, op) ==
    Decoded([op EXCEPT !.DestinationAccountID = o.Destination,
                       !.DestinationAmount = o.DestAmount,
                       !.DestinationAsset = Some(asset(o.DestAsset)),
                       !.SourceAmount = o.SendMax,
                       !.SourceAsset = Some(asset(o.SendAsset)),
                       !.Path = [i \in 1..Len(o.Path) |-> asset(o.Path[i])]])

\* op.OfferPrice, _ = big.NewRat(int64(o.Price.N), int64(o.Price.D)).Float64() comes
\* after three assignments and before the last one.
newManageOffer(o, op) ==
    LET before == [op EXCEPT !.SourceAmount = o.Amount,
                             !.SourceAsset = Some(asset(o.Buying)),
                             !.OfferID = o.OfferId]
    IN  IF o.Price.D = 0 THEN Aborted(before)
        ELSE Decoded([before EXCEPT !.OfferPrice = NewRat(o.Price.N, o.Price.D),
                                    !.DestinationAsset = Some(asset(o.Selling))])

newCreatePassiveOffer(o, op) ==
    LET before == [op EXCEPT !.SourceAmount = o.Amount,
                             !.SourceAsset = Some(asset(o.Buying))]
    IN  IF o.Price.D = 0 THEN Aborted(before)
        ELSE Decoded([before EXCEPT !.OfferPrice = NewRat(o.Price.N, o.Price.D),
                                    !.OfferPriceND = [N |-> o.Price.N, D |-> o.Price.D],
                                    !.DestinationAsset = Some(asset(o.Selling))])

\* The thresholds of newSetOptions.  op.Thresholds = &Thresholds{} has four nil
\* fields, and every assignment below it writes through one of them:
\*   if o.LowThreshold != nil { *op.Thresholds.Low = .. }     panics
\*   if o.LowThreshold != nil { *op.Thresholds.Medium = .. }  (not reached)
\*   if o.LowThreshold != nil { *op.Thresholds.High = .. }    (not reached)
\*   if o.MasterWeight != nil { *op.Thresholds.Master = .. }  panics
newSetOptionsThresholds(o, op) ==
    IF o.LowThreshold.present \/ o.MedThreshold.present \/ o.HighThreshold.present
          \/ o.MasterWeight.present
    THEN LET made == [op EXCEPT !.Thresholds = Some(EmptyThresholds)]
         IN  IF o.LowThreshold.present THEN Aborted(made)
             ELSE IF o.MasterWeight.present THEN Aborted(made)
             ELSE Decoded(made)
    ELSE Decoded(op)

\* if op.SetFlags != nil { op.SetFlags = flags(int(*o.SetFlags)) }: the test reads the
\* document's field, not the source's.
newSetOptionsSetFlags(o, op) ==
    IF op.SetFlags.present
    THEN IF o.SetFlags.present THEN Decoded([op EXCEPT !.SetFlags = Some(flags(o.SetFlags.value))])
         ELSE Aborted(op)
    ELSE Decoded(op)

newSetOptionsClearFlags(o, op) ==
    IF op.ClearFlags.present
    THEN IF o.ClearFlags.present
         THEN Decoded([op EXCEPT !.ClearFlags = Some(flags(o.ClearFlags.value))])
         ELSE Aborted(op)
    ELSE Decoded(op)

\* op.InflationDest = o.InflationDest.Address(); op.HomeDomain = string(*o.HomeDomain)
\* (a nil o.HomeDomain panics); then the thresholds and the two flag sets.
newSetOptions(o, op) ==
    LET withDest == [op EXCEPT !.InflationDest = Address(o.InflationDest)]
    IN  IF ~o.HomeDomain.present THEN Aborted(withDest)
        ELSE LET th == newSetOptionsThresholds(o, [withDest EXCEPT !.HomeDomain = o.HomeDomain.value])
             IN  IF th.panicked THEN th
                 ELSE LET sf == newSetOptionsSetFlags(o, th.op)
                      IN  IF sf.panicked THEN sf ELSE newSetOptionsClearFlags(o, sf.op)

\* A type the switch has no case for, with a decoder that gives up.
noCaseAborts(o, op) == Aborted(op)

\* The switch of NewOperation has no default: a type with no case leaves the document
\* as it is.
noCase(o, op) == Decoded(op)

\* NewOperation(t, o, n): the shared fields, then the switch on the type of the body.
NewOperation(tx, op, n) ==
    LET sourceAccountID ==
            IF op.sourceAccount.present THEN Address(op.sourceAccount) ELSE tx.SourceAccountID
        doc == [kind |-> "Operation", TxID |-> tx.ID, TxIndex |-> tx.Index, Index |-> n,
                Seq |-> tx.Seq, Order |-> Append(tx.Order, n), CloseTime |-> tx.CloseTime,
                Succesful |-> TRUE, ResultCode |-> 0,
                TxSourceAccountID |-> tx.SourceAccountID, Type |-> op.type,
                SourceAccountID |-> sourceAccountID, merged |-> FALSE,
                t |-> tx.t, o |-> n, n |-> 0] @@ KindSpecificDefaults
    IN  CASE op.type = "CreateAccount" -> newCreateAccount(op.body, doc)
          [] op.type = "Payment" -> newPayment(op.body, doc)
          [] op.type = "PathPayment" -> newPathPayment(op.body, doc)
          [] op.type = "ManageOffer" -> newManageOffer(op.body, doc)
          [] op.type = "CreatePassiveOffer" -> newCreatePassiveOffer(op.body, doc)
          [] op.type = "SetOptions" -> newSetOptions(op.body, doc)
          [] OTHER -> noCase(op.body, doc)

\* Records the exact (unconverted) loop position o the document was built at.
Origin(doc, o) == [doc EXCEPT !.o = o]

AppendResult(op, r) ==
    [op EXCEPT !.ResultCode = r.code, !.Succesful = (r.code = 0), !.merged = TRUE]

PagingToken(seq, txOrder, opOrder, aux) ==
    [LedgerSeq |-> seq, TransactionOrder |-> txOrder, OperationOrder |-> opOrder, AuxOrder1 |-> aux]

BalanceBearing(c) == c.entry \in {"account", "trustline"} /\ c.type # "removed"

RECURSIVE ExtractFrom(_, _, _, _, _, _)
ExtractFrom(changes, i, closeTime, source, pagingToken, origin) ==
    IF i > Len(changes) THEN <<>>
    ELSE LET rest == ExtractFrom(changes, i + 1, closeTime, source, pagingToken, origin)
         IN  IF BalanceBearing(changes[i])
             THEN <<[kind |-> "Balance", Source |-> source, PagingToken |-> pagingToken,
                     CloseTime |-> closeTime, Entry |-> changes[i].entry,
                     t |-> origin.t, o |-> origin.o, n |-> i - 1]>> \o rest
             ELSE rest

\* NewBalanceExtractor(changes, closeTime, source, pagingToken).Extract()
Extract(changes, closeTime, source, pagingToken, origin) ==
    ExtractFrom(changes, 1, closeTime, source, pagingToken, origin)

SerializeForBulk(doc, b) == Append(b, doc)

(***************************************************************************)
(* Loops.  A builder run is a record [buf, panicked, returned]: the        *)
(* buffer so far, whether an index expression went out of range (a Go      *)
(* run-time panic, which nothing here recovers: the run ends there), and   *)
(* whether the method in progress has executed `return`.                   *)
(*                                                                         *)
(* A loop `for i := lo; i < hi; i++ { body }` is an operator X(st, .., lo, *)
(* hi) that applies the body XStep to i = lo, lo + 1, .., hi - 1 in that   *)
(* order, threading the run through; it splits the range in two halves so  *)
(* that the evaluation depth stays logarithmic in the number of            *)
(* iterations, and runs the second half only if the first did not stop.    *)
(* A body does nothing once the run has panicked or returned.              *)
(***************************************************************************)
Run(b) == [buf |-> b, panicked |-> FALSE, returned |-> FALSE]
Panic(st) == [st EXCEPT !.panicked = TRUE]
Return(st) == [st EXCEPT !.returned = TRUE]
Stopped(st) == st.panicked \/ st.returned
\* Put with a document that depends on what the buffer already holds.
PutStamped(st, doc) ==
    [st EXCEPT !.buf = SerializeForBulk([doc EXCEPT !.CloseTime = @ + Len(st.buf)], @)]
Put(st, doc) == [st EXCEPT !.buf = SerializeForBulk(doc, @)]
Half(lo, hi) == (lo + hi) \div 2

\* for _, balance := range bl { SerializeForBulk(balance, b) }
RECURSIVE PutAll(_, _, _)
PutAll(st, docs, i) ==
    IF i > Len(docs) THEN st ELSE PutAll(Put(st, docs[i]), docs, i + 1)

(***************************************************************************)
(* MakeBulk (es/make_bulk.go, first file)                                  *)
(***************************************************************************)
\* op := NewOperation(tx, &ops[o], byte(o)); if results != nil
\*   { AppendResult(op, &(*results)[o]) }; SerializeForBulk(op, b)
MakeBulkOperationStep(st, tx, txRow, o) ==
    IF Stopped(st) THEN st
    ELSE LET made == NewOperation(tx, txRow.ops[o + 1], Uint8(o))
             op == Origin(made.op, o)
         IN  IF made.panicked THEN Panic(st)
             ELSE IF txRow.results.present
             THEN IF o >= Len(txRow.results.list)
                  THEN Panic(st)
                  ELSE Put(st, AppendResult(op, txRow.results.list[o + 1]))
             ELSE Put(st, op)

RECURSIVE MakeBulkOperations(_, _, _, _, _)
MakeBulkOperations(st, tx, txRow, lo, hi) ==
    IF lo >= hi THEN st
    ELSE IF hi = lo + 1 THEN MakeBulkOperationStep(st, tx, txRow, lo)
    ELSE LET left == MakeBulkOperations(st, tx, txRow, lo, Half(lo, hi))
         IN  IF Stopped(left) THEN left ELSE MakeBulkOperations(left, tx, txRow, Half(lo, hi), hi)

\* pagingToken := PagingToken{h.Seq, tx.Index, uint8(o + 1), 1}; bl := ...Extract(); ...
MakeBulkBalanceStep(st, h, tx, metas, o) ==
    IF Stopped(st) THEN st
    ELSE LET pagingToken == PagingToken(h.Seq, tx.Index, Uint8(o + 1), 1)
             bl == Extract(metas[o + 1].changes, h.CloseTime, "meta", pagingToken,
                           [t |-> tx.t, o |-> o])
         IN  PutAll(st, bl, 1)

RECURSIVE MakeBulkBalances(_, _, _, _, _, _)
MakeBulkBalances(st, h, tx, metas, lo, hi) ==
    IF lo >= hi THEN st
    ELSE IF hi = lo + 1 THEN MakeBulkBalanceStep(st, h, tx, metas, lo)
    ELSE LET left == MakeBulkBalances(st, h, tx, metas, lo, Half(lo, hi))
         IN  IF Stopped(left) THEN left ELSE MakeBulkBalances(left, h, tx, metas, Half(lo, hi), hi)

\* The metas of one row: V1's operations, else GetOperations() (nil when not ok).
MakeBulkMetas(txRow) ==
    IF txRow.meta.v = 1 THEN txRow.meta.operations
    ELSE IF txRow.meta.v = 0 THEN txRow.meta.operations
    ELSE <<>>

\* The body of the loop over txs: the transaction, its operations, its balances.
MakeBulkTransactionStep(st, h, txs, t) ==
    IF Stopped(st) THEN st
    ELSE LET txRow == txs[t + 1]
             metas == MakeBulkMetas(txRow)
             tx == NewTransaction(h.Seq, txRow, h.CloseTime)
             afterOps == MakeBulkOperations(Put(st, tx), tx, txRow, 0, Len(txRow.ops))
         IN  MakeBulkBalances(afterOps, h, tx, metas, 0, Len(metas))

RECURSIVE MakeBulkTransactions(_, _, _, _, _)
MakeBulkTransactions(st, h, txs, lo, hi) ==
    IF lo >= hi THEN st
    ELSE IF hi = lo + 1 THEN MakeBulkTransactionStep(st, h, txs, lo)
    ELSE LET left == MakeBulkTransactions(st, h, txs, lo, Half(lo, hi))
         IN  IF Stopped(left) THEN left ELSE MakeBulkTransactions(left, h, txs, Half(lo, hi), hi)

\* pagingToken := PagingToken{h.Seq, uint8(o), 255, 2}; bl := ...Extract(); ...
MakeBulkFeeStep(st, h, fees, o) ==
    IF Stopped(st) THEN st
    ELSE LET pagingToken == PagingToken(h.Seq, Uint8(o), 255, 2)
             bl == Extract(fees[o + 1].changes, h.CloseTime, "fee", pagingToken,
                           [t |-> o, o |-> 0])
         IN  PutAll(st, bl, 1)

RECURSIVE MakeBulkFees(_, _, _, _, _)
MakeBulkFees(st, h, fees, lo, hi) ==
    IF lo >= hi THEN st
    ELSE IF hi = lo + 1 THEN MakeBulkFeeStep(st, h, fees, lo)
    ELSE LET left == MakeBulkFees(st, h, fees, lo, Half(lo, hi))
         IN  IF Stopped(left) THEN left ELSE MakeBulkFees(left, h, fees, Half(lo, hi), hi)

MakeBulk(r, txs, fees, b) ==
    LET h == NewLedgerHeader(r)
        afterTxs == MakeBulkTransactions(Put(Run(b), h), h, txs, 0, Len(txs))
    IN  MakeBulkFees(afterTxs, h, fees, 0, Len(fees))

(***************************************************************************)
(* BulkMaker (es/make_bulk.go, second file)                                *)
(***************************************************************************)
fakeOperationIndex == 255
balanceFromMetaAuxOrder == 1
\* The fee path tagged like the operation-meta path.
FeeAuxOrderOfMeta == balanceFromMetaAuxOrder
balanceFromFeeAuxOrder == 2

NewBulkMaker(l, t, f, b) ==
    LET h == NewLedgerHeader(l)
    IN  [ledgerRow |-> l,
         ledgerHeader |-> h,
         seq |-> h.Seq,
         closeTime |-> h.CloseTime,
         transactionRows |-> t,
         transactions |-> [i \in 1..Len(t) |-> NewTransaction(h.Seq, t[i], h.CloseTime)],
         fees |-> f,
         buffer |-> b]

\* A method that has returned leaves the run ready for the next method of Make.
Returned(st) == [st EXCEPT !.returned = FALSE]

makeLedger(m, st) ==
    IF st.panicked THEN st ELSE Put(st, m.ledgerHeader)

RECURSIVE makeTransactionsLoop(_, _, _, _)
makeTransactionsLoop(m, st, lo, hi) ==
    IF lo >= hi THEN st
    ELSE IF hi = lo + 1 THEN (IF Stopped(st) THEN st ELSE Put(st, m.transactions[lo + 1]))
    ELSE LET left == makeTransactionsLoop(m, st, lo, Half(lo, hi))
         IN  IF Stopped(left) THEN left ELSE makeTransactionsLoop(m, left, Half(lo, hi), hi)

makeTransactions(m, st) ==
    Returned(makeTransactionsLoop(m, st, 0, Len(m.transactions)))

\* op := NewOperation(t, &o, byte(oIndex)); if results != nil
\*   { r := &(*results)[oIndex]; AppendResult(op, r) }; SerializeForBulk(op, m.buffer)
makeOperationStep(st, t, row, oIndex) ==
    IF Stopped(st) THEN st
    ELSE LET made == NewOperation(t, row.ops[oIndex + 1], Uint8(oIndex))
             op == Origin(made.op, oIndex)
         IN  IF made.panicked THEN Panic(st)
             ELSE IF row.results.present
             THEN IF oIndex >= Len(row.results.list)
                  THEN Panic(st)
                  ELSE Put(st, AppendResult(op, row.results.list[oIndex + 1]))
             ELSE Put(st, op)

RECURSIVE makeOperationsOfRow(_, _, _, _, _)
makeOperationsOfRow(st, t, row, lo, hi) ==
    IF lo >= hi THEN st
    ELSE IF hi = lo + 1 THEN makeOperationStep(st, t, row, lo)
    ELSE LET left == makeOperationsOfRow(st, t, row, lo, Half(lo, hi))
         IN  IF Stopped(left) THEN left ELSE makeOperationsOfRow(left, t, row, Half(lo, hi), hi)

RECURSIVE makeOperationsLoop(_, _, _, _)
makeOperationsLoop(m, st, lo, hi) ==
    IF lo >= hi THEN st
    ELSE IF hi = lo + 1
         THEN makeOperationsOfRow(st, m.transactions[lo + 1], m.transactionRows[lo + 1],
                                  0, Len(m.transactionRows[lo + 1].ops))
    ELSE LET left == makeOperationsLoop(m, st, lo, Half(lo, hi))
         IN  IF Stopped(left) THEN left ELSE makeOperationsLoop(m, left, Half(lo, hi), hi)

makeOperationsWithResults(m, st) ==
    Returned(makeOperationsLoop(m, st, 0, Len(m.transactions)))

\* pagingToken := PagingToken{m.seq, uint8(tIndex + 1), uint8(oIndex + 1),
\*   balanceFromMetaAuxOrder}; b := ...Extract(); ...
makeBalanceStep(m, st, tIndex, metas, oIndex) ==
    IF Stopped(st) THEN st
    ELSE LET pagingToken == PagingToken(m.seq, Uint8(tIndex + 1), Uint8(oIndex + 1),
                                        balanceFromMetaAuxOrder)
             b == Extract(metas[oIndex + 1].changes, m.closeTime, "meta", pagingToken,
                          [t |-> tIndex, o |-> oIndex])
         IN  PutAll(st, b, 1)

RECURSIVE makeBalancesOfRow(_, _, _, _, _, _)
makeBalancesOfRow(m, st, tIndex, metas, lo, hi) ==
    IF lo >= hi THEN st
    ELSE IF hi = lo + 1 THEN makeBalanceStep(m, st, tIndex, metas, lo)
    ELSE LET left == makeBalancesOfRow(m, st, tIndex, metas, lo, Half(lo, hi))
         IN  IF Stopped(left) THEN left
             ELSE makeBalancesOfRow(m, left, tIndex, metas, Half(lo, hi), hi)

\* The body of the loop over transactionRows: a row whose meta is neither V1 nor V0
\* makes the method return.
makeBalancesRowStep(m, st, tIndex) ==
    IF Stopped(st) THEN st
    ELSE LET row == m.transactionRows[tIndex + 1]
         IN  IF row.meta.v = 1
             THEN makeBalancesOfRow(m, st, tIndex, row.meta.operations, 0, Len(row.meta.operations))
             ELSE IF row.meta.v = 0
             THEN makeBalancesOfRow(m, st, tIndex, row.meta.operations, 0, Len(row.meta.operations))
             ELSE Return(st)

RECURSIVE makeBalancesLoop(_, _, _, _)
makeBalancesLoop(m, st, lo, hi) ==
    IF lo >= hi THEN st
    ELSE IF hi = lo + 1 THEN makeBalancesRowStep(m, st, lo)
    ELSE LET left == makeBalancesLoop(m, st, lo, Half(lo, hi))
         IN  IF Stopped(left) THEN left ELSE makeBalancesLoop(m, left, Half(lo, hi), hi)

makeBalancesFromMetas(m, st) ==
    Returned(makeBalancesLoop(m, st, 0, Len(m.transactionRows)))

\* pagingToken := PagingToken{m.seq, uint8(tIndex + 1), fakeOperationIndex,
\*   balanceFromFeeAuxOrder}; bl := ...Extract(); ...
makeFeeStep(m, st, tIndex) ==
    IF Stopped(st) THEN st
    ELSE LET pagingToken == PagingToken(m.seq, Uint8(tIndex + 1), fakeOperationIndex,
                                        balanceFromFeeAuxOrder)
             bl == Extract(m.fees[tIndex + 1].changes, m.closeTime, "fee", pagingToken,
                           [t |-> tIndex, o |-> 0])
         IN  PutAll(st, bl, 1)

RECURSIVE makeFeesLoop(_, _, _, _)
makeFeesLoop(m, st, lo, hi) ==
    IF lo >= hi THEN st
    ELSE IF hi = lo + 1 THEN makeFeeStep(m, st, lo)
    ELSE LET left == makeFeesLoop(m, st, lo, Half(lo, hi))
         IN  IF Stopped(left) THEN left ELSE makeFeesLoop(m, left, Half(lo, hi), hi)

makeBalancesFromFeeHistory(m, st) ==
    Returned(makeFeesLoop(m, st, 0, Len(m.fees)))

\* Make with the fee-history balances built before the operation-meta balances.
MakeFeesBeforeMetas(m) ==
    makeBalancesFromMetas(m,
        makeBalancesFromFeeHistory(m,
            makeOperationsWithResults(m,
                makeTransactions(m,
                    makeLedger(m, Run(m.buffer))))))

\* Make with the operation-meta balances built before the operations.
MakeMetasBeforeOperations(m) ==
    makeBalancesFromFeeHistory(m,
        makeOperationsWithResults(m,
            makeBalancesFromMetas(m,
                makeTransactions(m,
                    makeLedger(m, Run(m.buffer))))))

\* Make: the five methods in order; a panic ends the run where it happens.
Make(m) ==
    makeBalancesFromFeeHistory(m,
        makeBalancesFromMetas(m,
            makeOperationsWithResults(m,
                makeTransactions(m,
                    makeLedger(m, Run(m.buffer))))))

(***************************************************************************)
(* The builder as a state machine: one ledger, one call of an entry point. *)
(***************************************************************************)
\* The export command before Execute or index is called.
ExportIdle ==
    /\ pc = "configured"
    /\ firstLedger = 0
    /\ lastLedger = 0
    /\ streamed = <<>>
    /\ exportBuffer = <<>>
    /\ outcomes = <<>>
    /\ submitted = <<>>
    /\ retry = 0
    /\ sleeps = 0
    /\ delay = 0
    /\ fatal = ""

\* No second run of the builder has been made.
NoSecondRun == [entry |-> "none", start |-> <<>>, buffer |-> <<>>, bstate |-> "ready"]

BuilderInit ==
    /\ \/ \E n \in 0..MaxTx : \E shapes \in [1..n -> RegularShapes] : \E metaV \in {0, 1} :
             \E anomaly \in Anomalies(n) : \E nFees \in 0..MaxFees :
                ledger = SmallLedger(n, shapes, metaV, anomaly, nFees)
       \/ ledger \in WideLedgers
       \/ \E op \in DecodeOps : ledger = DecodeLedger(op)
    /\ entry = "none"
    /\ buffer = <<>>
    /\ bstate = "ready"
    /\ second = NoSecondRun
    /\ cfg = [Start |-> 0, Count |-> 0, RetryCount |-> 0, DryRun |-> FALSE]
    /\ ExportIdle

Finish(st, name) ==
    /\ buffer' = st.buf
    /\ bstate' = IF st.panicked THEN "panic" ELSE "done"
    /\ entry' = name
    /\ UNCHANGED <<ledger, second>>
    /\ UNCHANGED evars

CallMakeBulk ==
    /\ bstate = "ready"
    /\ Finish(MakeBulk(ledger, ledger.txs, ledger.fees, buffer), "MakeBulk")

CallBulkMaker ==
    /\ bstate = "ready"
    /\ Finish(Make(NewBulkMaker(ledger, ledger.txs, ledger.fees, buffer)), "BulkMaker")

\* What the buffer of a later run holds when the run starts: the documents of another
\* ledger (the first run started from an empty buffer).
RebuildStarts == {<<NewLedgerHeader(LedgerRowAt(99, <<>>, 0))>>}

\* The outcome of a second run, which started from the buffer start.
SecondRun(st, name, start) ==
    /\ second' = [entry |-> name, start |-> start, buffer |-> st.buf,
                  bstate |-> IF st.panicked THEN "panic" ELSE "done"]
    /\ UNCHANGED <<ledger, entry, buffer, bstate>>
    /\ UNCHANGED evars

\* The builder is run once more over the same rows, by either entry point.
RebuildMakeBulk ==
    /\ bstate # "ready"
    /\ second.entry = "none"
    /\ \E start \in RebuildStarts :
          SecondRun(MakeBulk(ledger, ledger.txs, ledger.fees, start), "MakeBulk", start)

RebuildBulkMaker ==
    /\ bstate # "ready"
    /\ second.entry = "none"
    /\ \E start \in RebuildStarts :
          SecondRun(Make(NewBulkMaker(ledger, ledger.txs, ledger.fees, start)), "BulkMaker", start)

BuilderNext == CallMakeBulk \/ CallBulkMaker \/ RebuildMakeBulk \/ RebuildBulkMaker

SpecBuilder == BuilderInit /\ [][BuilderNext]_vars

(***************************************************************************)
(* ExportCommand (commands/export.go)                                      *)
(*                                                                         *)
(* pc: "configured" (the command holds its Config, nothing has been        *)
(* called), "streaming" (Execute is in its loop over StreamLedgers),       *)
(* "submitting" (the loop has ended, BulkInsert is next), "done" (Execute  *)
(* returned), "index.call" (index is about to call BulkInsert),            *)
(* "index.sleep" (index is about to sleep and call itself),                *)
(* "index.returned" (index returned), "failed" (log.Fatal ended the        *)
(* process).                                                               *)
(***************************************************************************)
ExecuteStates == {"configured", "streaming", "submitting", "done", "failed"}

Starts == {1, 100}

Configs == [Start : Starts, Count : 0..MaxCount, RetryCount : 0..MaxRetryCount, DryRun : BOOLEAN]

\* The sequences a record of the source stream may carry: the requested range and the
\* sequences next to it on both sides.
StreamWindow == (cfg.Start - 1)..(cfg.Start + cfg.Count + 1)

\* The record set of the ledger closed at seq, as read back from history.
LedgerFromHistory(seq) == LedgerRowAt(seq, <<TxRow(0, 1, ResultsOf(0, 1), 1)>>, 1)

\* es.SerializeLedgerFromHistory(meta, &b): the ledger run through the builder.
SerializeLedgerFromHistory(seq, buf) ==
    LET l == LedgerFromHistory(seq)
    IN  Make(NewBulkMaker(l, l.txs, l.fees, buf)).buf

\* rand.Intn(10) + 5
Delays == 5..14

\* The `retry` argument of the outermost call of index.
InitialRetries == {0, 1}

ExportInit ==
    /\ cfg \in Configs
    /\ ExportIdle
    /\ ledger = LedgerRow(<<>>, 0)
    /\ entry = "none"
    /\ buffer = <<>>
    /\ bstate = "ready"
    /\ second = NoSecondRun

\* Execute, without the check of the range.
ExecuteStartUnchecked ==
    /\ pc = "configured"
    /\ firstLedger' = cfg.Start
    /\ lastLedger' = cfg.Start + cfg.Count
    /\ pc' = "streaming"
    /\ UNCHANGED <<fatal, cfg, streamed, exportBuffer, outcomes, submitted, retry, sleeps, delay>>
    /\ UNCHANGED bvars

\* Execute up to its loop: the bounds, and the fatal exit on an empty range.
ExecuteStart ==
    /\ pc = "configured"
    /\ firstLedger' = cfg.Start
    /\ lastLedger' = cfg.Start + cfg.Count
    /\ IF cfg.Count = 0
       THEN pc' = "failed" /\ fatal' = "Nothing to export within given range!"
       ELSE pc' = "streaming" /\ fatal' = fatal
    /\ UNCHANGED <<cfg, streamed, exportBuffer, outcomes, submitted, retry, sleeps, delay>>
    /\ UNCHANGED bvars

\* The range test of the loop body: TRUE when the record is skipped (`continue`).
OutOfRange(seq) == seq < firstLedger \/ seq > lastLedger

\* The loop body with a submission of the buffer after every ledger it builds.
ExecuteLedgerSubmitting ==
    /\ pc = "streaming"
    /\ Len(streamed) < MaxStream
    /\ \E seq \in StreamWindow : \E indexed \in BOOLEAN :
          /\ streamed' = Append(streamed, seq)
          /\ exportBuffer' = IF OutOfRange(seq) THEN exportBuffer
                             ELSE SerializeLedgerFromHistory(seq, exportBuffer)
          /\ outcomes' = IF OutOfRange(seq) THEN outcomes ELSE Append(outcomes, indexed)
          /\ submitted' = IF OutOfRange(seq) THEN submitted ELSE Append(submitted, exportBuffer')
    /\ UNCHANGED <<cfg, pc, firstLedger, lastLedger, retry, sleeps, delay, fatal>>
    /\ UNCHANGED bvars

\* One iteration of the loop: the stream yields a record, which is skipped or built.
ExecuteLedger ==
    /\ pc = "streaming"
    /\ Len(streamed) < MaxStream
    /\ \E seq \in StreamWindow :
          /\ streamed' = Append(streamed, seq)
          /\ exportBuffer' = IF OutOfRange(seq) THEN exportBuffer
                             ELSE SerializeLedgerFromHistory(seq, exportBuffer)
    /\ UNCHANGED <<cfg, pc, firstLedger, lastLedger, outcomes, submitted, retry, sleeps, delay, fatal>>
    /\ UNCHANGED bvars

\* The stream is closed: the loop ends.
ExecuteStreamEnd ==
    /\ pc = "streaming"
    /\ pc' = "submitting"
    /\ UNCHANGED <<cfg, firstLedger, lastLedger, streamed, exportBuffer, outcomes, submitted,
                   retry, sleeps, delay, fatal>>
    /\ UNCHANGED bvars

\* indexed := cmd.ES.BulkInsert(&b); if !indexed { log.Fatal("Cannot bulk insert") }
ExecuteBulkInsert ==
    /\ pc = "submitting"
    /\ \E indexed \in BOOLEAN :
          /\ outcomes' = Append(outcomes, indexed)
          /\ submitted' = Append(submitted, exportBuffer)
          /\ IF indexed
             THEN pc' = "done" /\ fatal' = fatal
             ELSE pc' = "failed" /\ fatal' = "Cannot bulk insert"
    /\ UNCHANGED <<cfg, firstLedger, lastLedger, streamed, exportBuffer, retry, sleeps, delay>>
    /\ UNCHANGED bvars

\* A call cmd.index(b, retry) from outside; nothing in Execute makes it.
IndexCall ==
    /\ pc = "configured"
    /\ \E r \in InitialRetries : retry' = r
    /\ pc' = "index.call"
    /\ UNCHANGED <<cfg, firstLedger, lastLedger, streamed, exportBuffer, outcomes, submitted,
                   sleeps, delay, fatal>>
    /\ UNCHANGED bvars

\* index with the result of BulkInsert ignored: it sleeps and calls itself again after
\* a success too.
IndexBulkInsertIgnoringSuccess ==
    /\ pc = "index.call"
    /\ \E indexed \in BOOLEAN :
          /\ outcomes' = Append(outcomes, indexed)
          /\ submitted' = Append(submitted, exportBuffer)
          /\ IF retry > cfg.RetryCount
             THEN pc' = "failed" /\ fatal' = "Retries for bulk failed, aborting"
             ELSE pc' = "index.sleep" /\ fatal' = fatal
    /\ UNCHANGED <<cfg, firstLedger, lastLedger, streamed, exportBuffer, retry, sleeps, delay>>
    /\ UNCHANGED bvars

\* indexed := cmd.ES.BulkInsert(b); if !indexed { if retry > RetryCount { log.Fatal } .. }
IndexBulkInsert ==
    /\ pc = "index.call"
    /\ \E indexed \in BOOLEAN :
          /\ outcomes' = Append(outcomes, indexed)
          /\ submitted' = Append(submitted, exportBuffer)
          /\ IF indexed
             THEN pc' = "index.returned" /\ fatal' = fatal
             ELSE IF retry > cfg.RetryCount
                  THEN pc' = "failed" /\ fatal' = "Retries for bulk failed, aborting"
                  ELSE pc' = "index.sleep" /\ fatal' = fatal
    /\ UNCHANGED <<cfg, firstLedger, lastLedger, streamed, exportBuffer, retry, sleeps, delay>>
    /\ UNCHANGED bvars

\* delay := rand.Intn(10) + 5; time.Sleep(delay * time.Second); cmd.index(b, retry + 1)
IndexSleep ==
    /\ pc = "index.sleep"
    /\ \E d \in Delays : delay' = d
    /\ sleeps' = sleeps + 1
    /\ retry' = retry + 1
    /\ pc' = "index.call"
    /\ UNCHANGED <<cfg, firstLedger, lastLedger, streamed, exportBuffer, outcomes, submitted,
                   fatal>>
    /\ UNCHANGED bvars

ExportNext ==
    \/ ExecuteStart
    \/ ExecuteLedger
    \/ ExecuteStreamEnd
    \/ ExecuteBulkInsert
    \/ IndexCall
    \/ IndexBulkInsert
    \/ IndexSleep

SpecExport == ExportInit /\ [][ExportNext]_vars

\* index runs on: a call of BulkInsert returns, and a sleep ends.
SpecExportFair ==
    ExportInit /\ [][ExportNext]_vars /\ WF_vars(IndexBulkInsert) /\ WF_vars(IndexSleep)

(***************************************************************************)
(* Properties of the builder (checked under SpecBuilder)                   *)
(***************************************************************************)
Ran == entry # "none"
Positions == 1..Len(buffer)
OfKind(k) == {i \in Positions : buffer[i].kind = k}
Balances == OfKind("Balance")
MetaBalances == {i \in Balances : buffer[i].Source = "meta"}
FeeBalances == {i \in Balances : buffer[i].Source = "fee"}

\* Lexicographic order on tuples of the same length.
LexLess(a, b) ==
    \E i \in 1..Len(a) : a[i] < b[i] /\ \A j \in 1..(i - 1) : a[j] = b[j]

\* Consecutive documents of the buffer ascend in the rank a rule gives them.
Ascending(rank(_)) ==
    \A i \in 1..(Len(buffer) - 1) : LexLess(rank(buffer[i]), rank(buffer[i + 1]))

HeaderFirst == Len(buffer) >= 1 /\ OfKind("LedgerHeader") = {1}

\* The emission order of section 4.3: header; per transaction its document and then its
\* operations; per transaction its meta balances; per fee row its balances.
SpecRank(d) ==
    CASE d.kind = "LedgerHeader" -> <<0, 0, 0, 0, 0>>
      [] d.kind = "Transaction" -> <<1, d.t, 0, 0, 0>>
      [] d.kind = "Operation" -> <<1, d.t, 1, d.o, 0>>
      [] d.kind = "Balance" /\ d.Source = "meta" -> <<2, d.t, 0, d.o, d.n>>
      [] OTHER -> <<3, d.t, 0, 0, d.n>>

\* BulkMaker.Make: header; all transactions; all operations; meta balances; fee balances.
BulkMakerRank(d) ==
    CASE d.kind = "LedgerHeader" -> <<0, 0, 0, 0, 0>>
      [] d.kind = "Transaction" -> <<1, d.t, 0, 0, 0>>
      [] d.kind = "Operation" -> <<2, d.t, 0, d.o, 0>>
      [] d.kind = "Balance" /\ d.Source = "meta" -> <<3, d.t, 0, d.o, d.n>>
      [] OTHER -> <<4, d.t, 0, 0, d.n>>

\* MakeBulk: header; per transaction its document, its operations and its meta
\* balances; fee balances.
MakeBulkRank(d) ==
    CASE d.kind = "LedgerHeader" -> <<0, 0, 0, 0, 0>>
      [] d.kind = "Transaction" -> <<1, d.t, 0, 0, 0>>
      [] d.kind = "Operation" -> <<1, d.t, 1, d.o, 0>>
      [] d.kind = "Balance" /\ d.Source = "meta" -> <<1, d.t, 2, d.o, d.n>>
      [] OTHER -> <<2, d.t, 0, 0, d.n>>

\* A finished run has appended every transaction, every operation and the balance of
\* every balance-bearing change of every fee row.
Complete ==
    /\ \A t \in 1..Len(ledger.txs) :
         /\ \E i \in OfKind("Transaction") : buffer[i].t = t - 1
         /\ \A o \in 1..Len(ledger.txs[t].ops) :
              \E i \in OfKind("Operation") : buffer[i].t = t - 1 /\ buffer[i].o = o - 1
    /\ \A f \in 1..Len(ledger.fees) :
         \A c \in 1..Len(ledger.fees[f].changes) :
            BalanceBearing(ledger.fees[f].changes[c]) =>
                \E i \in FeeBalances : buffer[i].t = f - 1 /\ buffer[i].n = c - 1

ChangeSetOf(d) == <<d.Source, d.t, d.o>>

TokenKey(p) == <<p.LedgerSeq, p.TransactionOrder, p.OperationOrder, p.AuxOrder1>>

\* Field-by-field comparison on ledgerSeq, transactionOrder, operationOrder, auxOrder.
TokenLess(p, q) == LexLess(TokenKey(p), TokenKey(q))

SameTriple(p, q) ==
    /\ p.LedgerSeq = q.LedgerSeq
    /\ p.TransactionOrder = q.TransactionOrder
    /\ p.OperationOrder = q.OperationOrder

\* C6 as stated: within one ledger the paging tokens stamped for distinct
\* (transaction, operation meta) pairs and for distinct fee rows are pairwise distinct.
C6_TokensUnique ==
    Ran => \A i, j \in Balances :
              ChangeSetOf(buffer[i]) # ChangeSetOf(buffer[j])
                  => buffer[i].PagingToken # buffer[j].PagingToken

\* C7: a fee-derived token and an operation-meta-derived token of the same ledger are
\* never equal: every fee-derived token carries auxOrder 2 and operationOrder 255, every
\* operation-meta-derived token carries auxOrder 1.
C7_SentinelNonCollision ==
    /\ \A i \in MetaBalances : buffer[i].PagingToken.AuxOrder1 = 1
    /\ \A j \in FeeBalances :
          /\ buffer[j].PagingToken.AuxOrder1 = 2
          /\ buffer[j].PagingToken.OperationOrder = 255
    /\ \A i \in MetaBalances : \A j \in FeeBalances :
          buffer[i].PagingToken # buffer[j].PagingToken

\* The buffer of BulkMaker.Make holds a meta balance and a fee balance whose
\* (ledgerSeq, transactionOrder, operationOrder) coincide: the meta at 1-based position
\* 255 of a transaction, and the fee row of the same transaction order.
C7_Witness ==
    /\ entry = "BulkMaker"
    /\ \E i \in MetaBalances : \E j \in FeeBalances :
          /\ SameTriple(buffer[i].PagingToken, buffer[j].PagingToken)
          /\ buffer[i].o = 254

\* C8 as stated: with both entry points the balances of the operation meta at 0-based
\* position o of the transaction at 0-based position t carry transactionOrder t + 1 and
\* operationOrder o + 1, those of the fee row at 0-based position f carry
\* transactionOrder f + 1 and operationOrder 255.
C8_TokenFields ==
    Ran =>
      /\ \A i \in MetaBalances :
            /\ buffer[i].PagingToken.TransactionOrder = buffer[i].t + 1
            /\ buffer[i].PagingToken.OperationOrder = buffer[i].o + 1
      /\ \A j \in FeeBalances :
            /\ buffer[j].PagingToken.TransactionOrder = buffer[j].t + 1
            /\ buffer[j].PagingToken.OperationOrder = 255

\* No position of the ledger reaches the 8-bit boundary: no conversion to uint8 wraps.
BelowByte ==
    /\ Len(ledger.txs) < Byte
    /\ Len(ledger.fees) < Byte
    /\ \A t \in 1..Len(ledger.txs) : Len(ledger.txs[t].meta.operations) < Byte

\* C9 as stated, for the ledgers in which no order field wraps: of two Balance documents
\* of the same ledger (taken from different change sets), the one appended earlier has
\* the smaller paging token, field by field.
C9_TokenOrderIsEmissionOrder ==
    (Ran /\ BelowByte) =>
        \A i, j \in Balances :
            (i < j /\ ChangeSetOf(buffer[i]) # ChangeSetOf(buffer[j]))
                => TokenLess(buffer[i].PagingToken, buffer[j].PagingToken)

\* C10 as stated: a result slice shorter or longer than the operations does not abort
\* the run; every operation gets its document, and a result is applied exactly at the
\* indices that exist in both lists.
C10_LengthMismatchTolerated ==
    Ran =>
      /\ bstate = "done"
      /\ \A t \in 1..Len(ledger.txs) : \A o \in 1..Len(ledger.txs[t].ops) :
            \E i \in OfKind("Operation") :
               /\ buffer[i].t = t - 1 /\ buffer[i].o = o - 1
               /\ buffer[i].merged =
                     (ledger.txs[t].results.present /\ o <= Len(ledger.txs[t].results.list))

(***************************************************************************)
(* Properties of NewOperation, read off the document of the first          *)
(* operation of the ledger (checked under SpecBuilder)                     *)
(***************************************************************************)
HasFirstOp == Len(ledger.txs) >= 1 /\ Len(ledger.txs[1].ops) >= 1
FirstOp == ledger.txs[1].ops[1]
FirstOpIs(kinds) == HasFirstOp /\ FirstOp.type \in kinds
FirstOpDocs == {i \in OfKind("Operation") : buffer[i].t = 0 /\ buffer[i].o = 0}

\* A field of the document's Thresholds; nil when the document has no Thresholds.
ThresholdOf(doc, f) == IF doc.Thresholds.present THEN doc.Thresholds.value[f] ELSE Nil

ThresholdsPreserved(doc, o) ==
    /\ ThresholdOf(doc, "Low") = o.LowThreshold
    /\ ThresholdOf(doc, "Medium") = o.MedThreshold
    /\ ThresholdOf(doc, "High") = o.HighThreshold
    /\ ThresholdOf(doc, "Master") = o.MasterWeight

OnlyMasterWeight(o) ==
    /\ o.MasterWeight.present
    /\ ~o.LowThreshold.present /\ ~o.MedThreshold.present /\ ~o.HighThreshold.present

\* C12 as stated: a set-options operation in which only the master weight is set is
\* decoded without aborting, and in every decoded set-options operation each field of
\* Thresholds is present exactly when it is in the source, with the source's value.
C12_ExplicitAbsence ==
    (Ran /\ FirstOpIs({"SetOptions"})) =>
        /\ OnlyMasterWeight(FirstOp.body) => (bstate = "done" /\ FirstOpDocs # {})
        /\ \A i \in FirstOpDocs : ThresholdsPreserved(buffer[i], FirstOp.body)

\* A flag set is present exactly when the bitmask is, and then holds the mask's bits.
FlagsDecoded(out, mask) ==
    /\ out.present = mask.present
    /\ mask.present =>
          /\ out.value.AuthRequired = HasBit(mask.value, 1)
          /\ out.value.AuthRevocable = HasBit(mask.value, 2)
          /\ out.value.AuthImmutable = HasBit(mask.value, 4)

\* C13 as stated: in the document of a decoded set-options operation SetFlags (resp.
\* ClearFlags) is present exactly when the source's set-flags (resp. clear-flags)
\* bitmask is, a zero one included, and its booleans are the bits of the mask.
C13_FlagPresence ==
    (Ran /\ FirstOpIs({"SetOptions"})) =>
        \A i \in FirstOpDocs :
            /\ FlagsDecoded(buffer[i].SetFlags, FirstOp.body.SetFlags)
            /\ FlagsDecoded(buffer[i].ClearFlags, FirstOp.body.ClearFlags)

\* The source operation a document of kind Operation was built from.
SourceOf(d) == ledger.txs[d.t + 1].ops[d.o + 1]
TransactionDocOf(d) == CHOOSE i \in OfKind("Transaction") : buffer[i].t = d.t

\* The shared fields of an Operation document are those of its transaction and source.
Envelope(d) ==
    LET tx == buffer[TransactionDocOf(d)]
    IN  /\ d.TxID = tx.ID /\ d.TxIndex = tx.Index /\ d.Seq = ledger.seq
        /\ d.Index = Uint8(d.o)
        /\ d.Order = <<ledger.seq, tx.Index, Uint8(d.o)>>
        /\ d.CloseTime = ledger.closeTime
        /\ d.Type = SourceOf(d).type
        /\ d.TxSourceAccountID = tx.SourceAccountID
        /\ d.SourceAccountID = IF SourceOf(d).sourceAccount.present
                               THEN SourceOf(d).sourceAccount.value ELSE tx.SourceAccountID
        /\ ~d.merged => (d.Succesful /\ d.ResultCode = 0)

KindSpecificOf(d) == [f \in DOMAIN KindSpecificDefaults |-> d[f]]

\* Nothing but an operation of an undecoded kind could stop the run: every operation
\* is of such a kind or a payment, and no result slice is shorter than its operations.
OnlyUndecodedOrPayments ==
    \A t \in 1..Len(ledger.txs) :
        /\ \A o \in 1..Len(ledger.txs[t].ops) :
              ledger.txs[t].ops[o].type \in OtherKinds \cup {"Payment"}
        /\ ledger.txs[t].results.present
              => Len(ledger.txs[t].results.list) >= Len(ledger.txs[t].ops)

\* Every transaction and every operation of the ledger has its document.
AllEmitted ==
    \A t \in 1..Len(ledger.txs) :
        /\ \E i \in OfKind("Transaction") : buffer[i].t = t - 1
        /\ \A o \in 1..Len(ledger.txs[t].ops) :
              \E i \in OfKind("Operation") : buffer[i].t = t - 1 /\ buffer[i].o = o - 1

\* C14: the document of an operation whose kind is none of the six decoded ones has
\* the shared fields (transaction linkage, index, order, close time, kind, source
\* account, success = true and result code = 0 until a result is merged) and every
\* kind-specific field at its default; such an operation does not stop the run: the
\* remaining operations and transactions of the ledger get their documents.
C14_UnknownKindNeverAborts ==
    Ran =>
        /\ \A i \in OfKind("Operation") :
              SourceOf(buffer[i]).type \in OtherKinds =>
                  /\ Envelope(buffer[i])
                  /\ KindSpecificOf(buffer[i]) = KindSpecificDefaults
        /\ OnlyUndecodedOrPayments => (bstate = "done" /\ AllEmitted)

\* The first operation of the ledger is of an undecoded kind with a source account of
\* its own; the run finished with its document and those of the operation and the
\* transaction after it.
C14_Witness ==
    /\ Ran /\ bstate = "done"
    /\ FirstOpIs(OtherKinds) /\ FirstOp.sourceAccount.present
    /\ FirstOpDocs # {}
    /\ \E i, j \in OfKind("Operation") :
          buffer[i].t = 0 /\ buffer[i].o = 1 /\ buffer[j].t = 1

\* C15 as stated: an offer whose price has denominator 0 does not stop the run: the
\* builder returns, and every transaction and every other operation of the ledger has
\* its document.
C15_MalformedPriceRecovered ==
    (Ran /\ FirstOpIs({"ManageOffer", "CreatePassiveOffer"}) /\ FirstOp.body.Price.D = 0) =>
        /\ bstate = "done"
        /\ \A t \in 1..Len(ledger.txs) :
              /\ \E i \in OfKind("Transaction") : buffer[i].t = t - 1
              /\ \A o \in 1..Len(ledger.txs[t].ops) :
                    (t # 1 \/ o # 1) =>
                        \E i \in OfKind("Operation") : buffer[i].t = t - 1 /\ buffer[i].o = o - 1

(***************************************************************************)
(* Properties of two runs of the builder (checked under SpecBuilder)       *)
(***************************************************************************)
SecondRan == second.entry # "none"

C18_NoMetaDoesNotSuppress ==
    (entry = "BulkMaker" /\ bstate = "done") =>
        \A t \in 1..Len(ledger.txs) :
            \A o \in 1..Len(ledger.txs[t].meta.operations) :
                \A c \in 1..Len(ledger.txs[t].meta.operations[o].changes) :
                    BalanceBearing(ledger.txs[t].meta.operations[o].changes[c]) =>
                        \E i \in MetaBalances :
                            buffer[i].t = t - 1 /\ buffer[i].o = o - 1 /\ buffer[i].n = c - 1

Count(docs, d) == Cardinality({i \in 1..Len(docs) : docs[i] = d})

\* The same documents, each as many times, in whatever order.
SameDocuments(a, b) ==
    /\ Len(a) = Len(b)
    /\ \A i \in 1..Len(a) : Count(a, a[i]) = Count(b, a[i])

TokensOf(docs) == {docs[i].PagingToken : i \in {j \in 1..Len(docs) : docs[j].kind = "Balance"}}

\* What the second run appended to the buffer it started from.
SecondAppended == SubSeq(second.buffer, Len(second.start) + 1, Len(second.buffer))

\* C19 as stated: run over the same ledger, MakeBulk and BulkMaker.Make append the
\* same multiset of documents, and so the same set of Balance paging tokens.
C19_EntryPointsEquivalent ==
    (SecondRan /\ second.entry # entry) =>
        /\ SameDocuments(buffer, SecondAppended)
        /\ TokensOf(buffer) = TokensOf(SecondAppended)

(***************************************************************************)
(* Properties of the export command (checked under SpecExport)             *)
(***************************************************************************)
\* Execute has been called (the fatal exit of index is not one of its states).
ExecuteRan ==
    \/ pc \in {"streaming", "submitting", "done"}
    \/ pc = "failed" /\ fatal # "Retries for bulk failed, aborting"

AllFailed == \A i \in 1..Len(outcomes) : ~outcomes[i]

\* C3 as stated: when every BulkInsert call fails, the command makes exactly
\* RetryCount + 1 submissions of the same buffer, sleeping between consecutive ones, and
\* then terminates fatally: never more than RetryCount + 1, and not fewer before it
\* gives up.
C3_RetryExhaustion ==
    AllFailed =>
      /\ Len(outcomes) <= cfg.RetryCount + 1
      /\ \A i \in 1..Len(submitted) : submitted[i] = submitted[1]
      /\ (pc = "failed" /\ outcomes # <<>>) =>
            (Len(outcomes) = cfg.RetryCount + 1 /\ sleeps = cfg.RetryCount)

Yielded(n) == Cardinality({i \in 1..Len(streamed) : streamed[i] = n})
Built(n) ==
    Cardinality({i \in 1..Len(exportBuffer) :
                    exportBuffer[i].kind = "LedgerHeader" /\ exportBuffer[i].Seq = n})

\* C4 as stated: a record the stream yields is run through the builder if and only if
\* its sequence n satisfies Start <= n < Start + Count; every other record (n = Start +
\* Count among them) contributes nothing to the buffer.
C4_RangeBound ==
    \A n \in StreamWindow :
        Built(n) = IF cfg.Start <= n /\ n < cfg.Start + cfg.Count THEN Yielded(n) ELSE 0

\* C5: with Count = 0, Execute ends in the fatal state with no record pulled from the
\* stream, no document built and no BulkInsert call made.
C5_ZeroCountFailsFast ==
    (cfg.Count = 0 /\ ExecuteRan) =>
        /\ pc = "failed"
        /\ fatal = "Nothing to export within given range!"
        /\ streamed = <<>>
        /\ exportBuffer = <<>>
        /\ outcomes = <<>>

\* Execute has been called with Count = 0.
C5_Witness == cfg.Count = 0 /\ ExecuteRan /\ firstLedger = cfg.Start

\* C11 as stated: when Config.DryRun is set, Execute builds the documents of the range
\* and makes no BulkInsert call.
C11_DryRunSkipsSubmission ==
    (cfg.DryRun /\ ExecuteRan) => outcomes = <<>>

\* The ledger a document belongs to.
DocSeq(d) == IF d.kind = "Balance" THEN d.PagingToken.LedgerSeq ELSE d.Seq

IsHeader(d) == d.kind = "LedgerHeader"

\* The sequences of the ledgers built into a buffer, in the order of their headers.
HeaderSeqs(buf) ==
    LET headers == SelectSeq(buf, IsHeader)
    IN  [i \in 1..Len(headers) |-> headers[i].Seq]

\* The requested range.
InRange(n) == cfg.Start <= n /\ n < cfg.Start + cfg.Count

\* The documents of one ledger are not interleaved with another's: each document
\* follows the header of its own ledger with no other header in between.
Contiguous(buf) ==
    \A i \in 1..Len(buf) :
        \/ IsHeader(buf[i])
        \/ i > 1 /\ DocSeq(buf[i - 1]) = DocSeq(buf[i])

\* C17: in an execution of Execute with Count > 0 no BulkInsert call is made while the
\* stream is still being read; every in-range ledger the stream yielded is in the one
\* buffer, in the order of the stream, its documents not interleaved with another
\* ledger's; there is at most one submission, and it is of that whole buffer.
C17_SubmitAfterFullBuffering ==
    (ExecuteRan /\ cfg.Count > 0) =>
        /\ pc = "streaming" => outcomes = <<>>
        /\ SelectSeq(HeaderSeqs(exportBuffer), InRange) = SelectSeq(streamed, InRange)
        /\ Contiguous(exportBuffer)
        /\ Len(outcomes) <= 1
        /\ outcomes # <<>> => (pc \in {"done", "failed"} /\ submitted = <<exportBuffer>>)

\* Execute returned after one submission; the stream had yielded two ledgers of the
\* range, the later one first, and a record outside the range.
C17_Witness ==
    /\ pc = "done" /\ Len(outcomes) = 1
    /\ \E i, j \in 1..Len(streamed) :
          i < j /\ streamed[i] > streamed[j] /\ InRange(streamed[i]) /\ InRange(streamed[j])
    /\ \E i \in 1..Len(streamed) : streamed[i] < cfg.Start

\* index has been called.
IndexRan ==
    \/ pc \in {"index.call", "index.sleep", "index.returned"}
    \/ pc = "failed" /\ fatal = "Retries for bulk failed, aborting"

\* A success is the last call: nothing is submitted after it.
SuccessIsLast == \A i \in 1..Len(outcomes) : outcomes[i] => i = Len(outcomes)

\* index sleeps only after a failed call, so never after a success.
SleepsFollowFailures == sleeps <= Cardinality({i \in 1..Len(outcomes) : ~outcomes[i]})

IndexStopsAtSuccess ==
    IndexRan =>
        /\ SuccessIsLast
        /\ SleepsFollowFailures
        /\ (outcomes # <<>> /\ outcomes[Len(outcomes)]) => pc = "index.returned"
        /\ Len(outcomes) <= cfg.RetryCount + 2

\* C20: whatever the outcomes of BulkInsert, index makes no submission and no sleep
\* after a call that succeeded, makes at most RetryCount + 2 calls, and a running index
\* eventually returns (after a success) or ends the process (fatal).
C20_RetryTerminates ==
    /\ []IndexStopsAtSuccess
    /\ (pc = "index.call") ~> (pc = "index.returned" \/ pc = "failed")

\* index returned after a failed call, a sleep and a call that succeeded.
C20_Witness ==
    pc = "index.returned" /\ outcomes = <<FALSE, TRUE>> /\ sleeps = 1

====
